---- MODULE Spec2Model ----
(***************************************************************************)
(* Model of internal/store/store.go of the shardman (hodgepodge) metadata  *)
(* layer: the cluster metadata facade over an etcd key-value store, the    *)
(* strategic merge of a StolonSpec patch, and UpdateStolonSpec, which      *)
(* broadcasts a new spec to every replication group and then stores it.    *)
(***************************************************************************)
EXTENDS Integers, Sequences, FiniteSets, TLC

(***************************************************************************)
(* Bounds of the model.                                                    *)
(***************************************************************************)
\* Scalar spec fields range over 1..MaxVal.
MaxVal == 2
\* Replication groups are numbered 1..NumGroups.
NumGroups == 3
\* Number of UpdateStolonSpec invocations in one behaviour.
MaxCalls == 2
\* Total number of direct PutClusterData / PutRepGroups calls by other clients.
MaxPuts == 1

(***************************************************************************)
(* StolonSpec values.  A spec is a Go struct of optional fields: a scalar  *)
(* pointer field a and a pointer b to a nested struct with scalar pointer  *)
(* fields x and y.  A nil scalar pointer is 0, a nil struct pointer is     *)
(* NilStruct.                                                              *)
(***************************************************************************)
Null == 0

Vals == 1..MaxVal

NilStruct == [nil |-> TRUE]

SubSpecs == [x : {Null} \cup Vals, y : {Null} \cup Vals]

StolonSpecs == [a : {Null} \cup Vals, b : SubSpecs \cup {NilStruct}]

(***************************************************************************)
(* JSON documents.  An object is a function from the keys it holds to      *)
(* their values; a scalar null is Null, a null in the place of an object   *)
(* is JNullObj.                                                            *)
(***************************************************************************)
JNullObj == [null |-> TRUE]

\* The keys whose values are objects (the schema of StolonSpec).
IsMapKey(k) == k = "b"

IsJNull(k, v) == IF IsMapKey(k) THEN v = JNullObj ELSE v = Null

\* json.Marshal of the nested struct: nil pointer fields are omitted.
MarshalSub(s) == [k \in {f \in {"x", "y"} : s[f] # Null} |-> s[k]]

\* json.Marshal of a *StolonSpec: nil pointer fields are omitted (omitempty).
Marshal(spec) ==
    LET keys == {k \in {"a", "b"} :
                    IF k = "a" THEN spec.a # Null ELSE spec.b # NilStruct}
    IN  [k \in keys |-> IF k = "a" THEN spec.a ELSE MarshalSub(spec.b)]

\* A scalar member of a JSON object, Null when the key is missing or null.
JScalar(j, k) == IF k \in DOMAIN j THEN j[k] ELSE Null

UnmarshalSub(j) == [x |-> JScalar(j, "x"), y |-> JScalar(j, "y")]

\* json.Unmarshal into a *StolonSpec: a missing or null member leaves nil.
Unmarshal(j) ==
    [a |-> JScalar(j, "a"),
     b |-> IF "b" \in DOMAIN j /\ j["b"] # JNullObj
           THEN UnmarshalSub(j["b"]) ELSE NilStruct]

(***************************************************************************)
(* strategicpatch.StrategicMergePatch on the two JSON objects: for every   *)
(* key of the patch, a null deletes the key, a key missing from the        *)
(* original takes the patch value, two objects are merged recursively and  *)
(* anything else is replaced by the patch value.  Keys the patch does not  *)
(* hold stay as they are.                                                  *)
(***************************************************************************)
\* A merge in which a key both sides hold keeps the original's value.
MergeMapKeepOriginal(original, patch) ==
    LET deleted == {k \in DOMAIN patch : IsJNull(k, patch[k])}
        keys    == (DOMAIN original \cup DOMAIN patch) \ deleted
    IN  [k \in keys |-> IF k \in DOMAIN original THEN original[k] ELSE patch[k]]

\* A merge that replaces every key of the patch wholesale.
MergeMapShallow(original, patch) ==
    LET deleted == {k \in DOMAIN patch : IsJNull(k, patch[k])}
        keys    == (DOMAIN original \cup DOMAIN patch) \ deleted
    IN  [k \in keys |-> IF k \in DOMAIN patch THEN patch[k] ELSE original[k]]

RECURSIVE MergeMap(_, _)
MergeMap(original, patch) ==
    LET deleted == {k \in DOMAIN patch : IsJNull(k, patch[k])}
        keys    == (DOMAIN original \cup DOMAIN patch) \ deleted
    IN  [k \in keys |->
            IF k \notin DOMAIN patch THEN original[k]
            ELSE IF k \notin DOMAIN original THEN patch[k]
            ELSE IF IsMapKey(k) /\ original[k] # JNullObj
                 THEN MergeMap(original[k], patch[k])
            ELSE patch[k]]

StrategicMergePatch(specj, patchj) == MergeMap(specj, patchj)

patchClusterSpec(spec, patch) ==
    Unmarshal(StrategicMergePatch(Marshal(spec), Marshal(patch)))

(***************************************************************************)
(* ClusterData: the StolonSpec and the superuser credentials.  A nil       *)
(* *ClusterData is NilClusterData.                                         *)
(***************************************************************************)
NilClusterData == [nil |-> TRUE]

NilPair == [nil |-> TRUE]

\* A marshalling that encodes the password again on every write.
MarshalClusterDataEncoding(cldata) ==
    [StolonSpec     |-> Marshal(cldata.StolonSpec),
     PgSuUsername   |-> cldata.PgSuUsername,
     PgSuPassword   |-> cldata.PgSuPassword \o "=",
     PgSuAuthMethod |-> cldata.PgSuAuthMethod]

\* json.Marshal of a *ClusterData.
MarshalClusterData(cldata) ==
    [StolonSpec     |-> Marshal(cldata.StolonSpec),
     PgSuUsername   |-> cldata.PgSuUsername,
     PgSuPassword   |-> cldata.PgSuPassword,
     PgSuAuthMethod |-> cldata.PgSuAuthMethod]

\* The cluster.ClusterData that GetClusterData decodes into (line 56).
ZeroClusterData ==
    [StolonSpec     |-> NilStruct,
     PgSuUsername   |-> "",
     PgSuPassword   |-> "",
     PgSuAuthMethod |-> ""]

\* Stored bytes that are no JSON document.
CorruptBytes == [corrupt |-> TRUE]

\* The JSON document {}.
EmptyDoc == [k \in {} |-> Null]

\* json.Unmarshal reports an error for bytes that do not parse.
DecodeFails(bytes) == bytes = CorruptBytes

\* json.Unmarshal into a *ClusterData: the documents {} and null leave the
\* zero value.
UnmarshalClusterData(doc) ==
    IF "StolonSpec" \notin DOMAIN doc
    THEN ZeroClusterData
    ELSE [StolonSpec     |-> Unmarshal(doc.StolonSpec),
          PgSuUsername   |-> doc.PgSuUsername,
          PgSuPassword   |-> doc.PgSuPassword,
          PgSuAuthMethod |-> doc.PgSuAuthMethod]

\* json.Marshal of the directory map.
MarshalRepGroups(rgs) == [groups |-> rgs]

\* json.Unmarshal into a nil map[int]*RepGroup: the group ids and whether
\* the map is still nil (the document null).
UnmarshalRepGroups(doc) ==
    IF doc = JNullObj
    THEN [ids |-> {}, nilmap |-> TRUE]
    ELSE [ids |-> doc.groups, nilmap |-> FALSE]

(***************************************************************************)
(* The etcd store, one key at a time: whether the key was ever written,    *)
(* its value and the version (LastIndex) of its last write.                *)
(***************************************************************************)
NoValue == [none |-> TRUE]

AbsentKey == [present |-> FALSE, value |-> NoValue, ver |-> 0]

\* EtcdV3Store.Get: nil pair for a key never written.
EtcdGet(kv) ==
    IF kv.present THEN [Value |-> kv.value, LastIndex |-> kv.ver] ELSE NilPair

\* EtcdV3Store.Put: unconditional overwrite.
EtcdPut(kv, value) == [present |-> TRUE, value |-> value, ver |-> kv.ver + 1]

\* A read that takes bytes it cannot decode for a key never written.
GetClusterDataLenient(kv, fail) ==
    IF fail
    THEN [cldata |-> NilClusterData, pair |-> NilPair, err |-> "BackendError"]
    ELSE IF EtcdGet(kv) = NilPair \/ DecodeFails(EtcdGet(kv).Value)
    THEN [cldata |-> NilClusterData, pair |-> NilPair, err |-> "nil"]
    ELSE [cldata |-> UnmarshalClusterData(EtcdGet(kv).Value),
          pair   |-> EtcdGet(kv),
          err    |-> "nil"]

\* GetClusterData: (cldata, pair, err); fail is a backend error of the Get.
GetClusterData(kv, fail) ==
    IF fail
    THEN [cldata |-> NilClusterData, pair |-> NilPair, err |-> "BackendError"]
    ELSE IF EtcdGet(kv) = NilPair
    THEN [cldata |-> NilClusterData, pair |-> NilPair, err |-> "nil"]
    ELSE IF DecodeFails(EtcdGet(kv).Value)
    THEN [cldata |-> NilClusterData, pair |-> NilPair, err |-> "DecodeError"]
    ELSE [cldata |-> UnmarshalClusterData(EtcdGet(kv).Value),
          pair   |-> EtcdGet(kv),
          err    |-> "nil"]

\* PutClusterData: (store after, err).
PutClusterData(kv, cldata, fail) ==
    IF fail
    THEN [kv |-> kv, err |-> "BackendError"]
    ELSE [kv |-> EtcdPut(kv, MarshalClusterData(cldata)), err |-> "nil"]

\* A read that reports a key never written as an error.
GetRepGroupsStrict(kv, fail) ==
    IF fail
    THEN [rgdata |-> {}, nilmap |-> TRUE, pair |-> NilPair,
          err |-> "BackendError"]
    ELSE IF EtcdGet(kv) = NilPair
    THEN [rgdata |-> {}, nilmap |-> TRUE, pair |-> NilPair,
          err |-> "NotFound"]
    ELSE IF DecodeFails(EtcdGet(kv).Value)
    THEN [rgdata |-> {}, nilmap |-> TRUE, pair |-> NilPair,
          err |-> "DecodeError"]
    ELSE [rgdata |-> UnmarshalRepGroups(EtcdGet(kv).Value).ids,
          nilmap |-> UnmarshalRepGroups(EtcdGet(kv).Value).nilmap,
          pair   |-> EtcdGet(kv),
          err    |-> "nil"]

\* GetRepGroups: (rgdata, pair, err); rgdata is the set of group ids of the
\* map and nilmap whether the map is nil.
GetRepGroups(kv, fail) ==
    IF fail
    THEN [rgdata |-> {}, nilmap |-> TRUE, pair |-> NilPair,
          err |-> "BackendError"]
    ELSE IF EtcdGet(kv) = NilPair
    THEN [rgdata |-> {}, nilmap |-> TRUE, pair |-> NilPair, err |-> "nil"]
    ELSE IF DecodeFails(EtcdGet(kv).Value)
    THEN [rgdata |-> {}, nilmap |-> TRUE, pair |-> NilPair,
          err |-> "DecodeError"]
    ELSE [rgdata |-> UnmarshalRepGroups(EtcdGet(kv).Value).ids,
          nilmap |-> UnmarshalRepGroups(EtcdGet(kv).Value).nilmap,
          pair   |-> EtcdGet(kv),
          err    |-> "nil"]

\* PutRepGroups: (store after, err).
PutRepGroups(kv, rgs, fail) ==
    IF fail
    THEN [kv |-> kv, err |-> "BackendError"]
    ELSE [kv |-> EtcdPut(kv, MarshalRepGroups(rgs)), err |-> "nil"]

\* json.Marshal of the masters map.
MarshalMasters(masters) == [masters |-> masters]

\* PutMasters: (store after, err).
PutMasters(kv, masters, fail) ==
    IF fail
    THEN [kv |-> kv, err |-> "BackendError"]
    ELSE [kv |-> EtcdPut(kv, MarshalMasters(masters)), err |-> "nil"]

(***************************************************************************)
(* StolonUpdate(rg, rgid, patch, spec): the group's own stored spec after  *)
(* the update and the error; ok is whether the group's store accepts it.   *)
(***************************************************************************)
StolonUpdate(groupspec, rgid, patch, spec, ok) ==
    IF ~ok
    THEN [spec |-> groupspec, err |-> "GroupUpdateFailed"]
    ELSE [spec |-> IF patch THEN patchClusterSpec(groupspec, spec) ELSE spec,
          err  |-> "nil"]

(***************************************************************************)
(* The decisions of UpdateStolonSpec.                                      *)
(***************************************************************************)
\* The two modes taken for one another.
ComputeNewSpecSwapped(currentspec, spec, patch) ==
    IF ~patch THEN patchClusterSpec(currentspec, spec) ELSE spec

\* Lines 152-159: the new spec from the current one and the request.
ComputeNewSpec(currentspec, spec, patch) ==
    IF patch THEN patchClusterSpec(currentspec, spec) ELSE spec

\* The caller's own mode handed on to the groups.
PushPatchFlagAsRequested(patch) == patch

\* Line 170: the patch flag handed to StolonUpdate.
PushPatchFlag(patch) == TRUE

\* A range that does not leave the group it has just yielded.
RangeRestRevisit(todo, rgid) == todo

\* Line 167: the range yields every key of the map once.
RangeRest(todo, rgid) == todo \ {rgid}

\* A loop that leaves after its first turn.
AfterPushBreak(todo) == "put"

\* Line 167: after a successful push the loop goes on until the map is done.
AfterPush(todo) == IF todo = {} THEN "put" ELSE "loop"

\* A failed push that is passed over: the loop goes on.
AfterPushErrorContinue(todo) == IF todo = {} THEN "put" ELSE "loop"

\* Line 171: a failed push returns its error.
AfterPushError(todo) == "done"

\* A write of a new document that holds the spec and nothing else.
CommitClusterDataFresh(kv, cldata, spec, pair, fail) ==
    PutClusterData(kv, [ZeroClusterData EXCEPT !.StolonSpec = spec], fail)

\* A write that leaves out line 175: the document goes back as it was read.
CommitClusterDataStale(kv, cldata, spec, pair, fail) ==
    PutClusterData(kv, cldata, fail)

\* A write made only when the key still has the version that was read.
CommitClusterDataIfUnchanged(kv, cldata, spec, pair, fail) ==
    IF ~fail /\ pair.LastIndex # kv.ver
    THEN [kv |-> kv, err |-> "VersionConflict"]
    ELSE PutClusterData(kv, [cldata EXCEPT !.StolonSpec = spec], fail)

\* Lines 175-176: the ClusterData read, with the new spec, is written back;
\* the pair read with it is not consulted.
CommitClusterData(kv, cldata, spec, pair, fail) ==
    PutClusterData(kv, [cldata EXCEPT !.StolonSpec = spec], fail)

\* An error of the final write that the caller is not told of.
PutResultHidden(err) == "ok"

\* Line 176: what PutClusterData returned is what the invocation returns.
PutResult(err) == IF err = "nil" THEN "ok" ELSE err

(***************************************************************************)
(* GetSuConnstrMap(rg, cldata).  NewStolonStore and GetMaster are calls    *)
(* into the group's own store: newErr and getErr are their errors and      *)
(* master what GetMaster returned, NilMaster when the group has no         *)
(* recorded leader.  A map of libpq options is a function from its keys.   *)
(***************************************************************************)
NilMaster == [nil |-> TRUE]

\* The masters a group may record.
Masters == [ListenAddress : {"10.0.0.1", "10.0.0.2"}, Port : {"5432", "5433"}]

NilMap == [nil |-> TRUE]

\* A map that holds the password whatever the auth method is.
GetSuConnstrMapAlwaysPassword(cldata, newErr, master, getErr) ==
    IF newErr \/ getErr
    THEN [cp |-> NilMap, err |-> "BackendError", closed |-> ~newErr]
    ELSE IF cldata = NilClusterData \/ master = NilMaster
    THEN [cp |-> NilMap, err |-> "panic", closed |-> TRUE]
    ELSE [cp |-> [k \in {"user", "dbname", "host", "port", "password"} |->
                    CASE k = "user"     -> cldata.PgSuUsername
                      [] k = "dbname"   -> "postgres"
                      [] k = "host"     -> master.ListenAddress
                      [] k = "port"     -> master.Port
                      [] k = "password" -> cldata.PgSuPassword],
          err |-> "nil", closed |-> TRUE]

\* Lines 180-202: (cp, err), and whether the deferred Close ran.  Only the
\* errors of the two calls are tested: a nil master or cldata is
\* dereferenced at lines 193-196 and the goroutine panics.
GetSuConnstrMap(cldata, newErr, master, getErr) ==
    IF newErr
    THEN [cp |-> NilMap, err |-> "BackendError", closed |-> FALSE]
    ELSE IF getErr
    THEN [cp |-> NilMap, err |-> "BackendError", closed |-> TRUE]
    ELSE IF cldata = NilClusterData \/ master = NilMaster
    THEN [cp |-> NilMap, err |-> "panic", closed |-> TRUE]
    ELSE LET keys == {"user", "dbname", "host", "port"} \cup
                     (IF cldata.PgSuAuthMethod # "trust"
                      THEN {"password"} ELSE {})
         IN  [cp |-> [k \in keys |->
                        CASE k = "user"     -> cldata.PgSuUsername
                          [] k = "dbname"   -> "postgres"
                          [] k = "host"     -> master.ListenAddress
                          [] k = "port"     -> master.Port
                          [] k = "password" -> cldata.PgSuPassword],
              err |-> "nil", closed |-> TRUE]

\* The invocations of UpdateStolonSpec, numbered in the order they start.
Procs == 1..MaxCalls

Groups == 1..NumGroups

\* The specs callers ask for: {b:{x:MaxVal}} and {a:MaxVal}.
Requests ==
    {[a |-> Null, b |-> [x |-> MaxVal, y |-> Null]],
     [a |-> MaxVal, b |-> NilStruct]}

\* The spec a cluster is bootstrapped with: {a:1, b:{x:1}}.
BootSpec == [a |-> 1, b |-> [x |-> 1, y |-> Null]]

BootClusterData(auth) ==
    [StolonSpec     |-> BootSpec,
     PgSuUsername   |-> "postgres",
     PgSuPassword   |-> "secret",
     PgSuAuthMethod |-> auth]

\* A group's own spec at bootstrap: the cluster's plus the group-local y.
BootGroupSpec == [a |-> 1, b |-> [x |-> 1, y |-> 1]]

VARIABLES
    kvCluster,  \* the clusterdata key
    kvRepGroups,\* the repgroups key
    kvMasters,  \* the masters key
    groupSpec,  \* each group's own stored spec
    pc,         \* where each UpdateStolonSpec invocation stands
    spec,       \* its argument spec
    patch,      \* its argument patch
    cldata,     \* the ClusterData it read
    cdpair,     \* the pair read with it (discarded by the code)
    newspec,    \* the spec it computed
    rgs,        \* the directory it read
    todo,       \* the groups its loop has not reached yet
    ret,        \* what it returned: "none" while running
    pushed,     \* history: the StolonUpdate calls it made
    failed,     \* history: the groups whose push failed in it
    wrote,      \* history: whether it has written ClusterData
    pre,        \* history: the stores when it was called
    hist,       \* history: the finished calls and direct puts, in order
    nCalls,     \* invocations so far
    nPuts,      \* direct puts so far
    mBase,      \* merge check: the base spec
    mPatch,     \* merge check: the patch
    mOut,       \* merge check: the merged spec
    mPhase,     \* merge check: "in" before the merge, "out" after it
    rd,         \* the last GetClusterData / GetRepGroups call of a reader
    conn        \* the last GetSuConnstrMap call

mvars == <<mBase, mPatch, mOut, mPhase, rd, conn>>

svars == <<kvCluster, kvRepGroups, kvMasters, groupSpec, pc, spec, patch, cldata, cdpair,
           newspec, rgs, todo, ret, pushed, failed, wrote, pre, hist, nCalls,
           nPuts>>

vars == <<svars, mvars>>

EmptySpec == [a |-> Null, b |-> NilStruct]

\* The stores as a cluster bootstrap leaves them or before it.
StoreInit ==
    /\ kvCluster \in {AbsentKey,
                      EtcdPut(AbsentKey, MarshalClusterData(BootClusterData("md5")))}
    /\ kvRepGroups \in {AbsentKey, EtcdPut(AbsentKey, MarshalRepGroups(Groups))}
    /\ kvMasters = AbsentKey
    /\ groupSpec = [g \in Groups |-> BootGroupSpec]

IdleInit ==
    /\ pc = [p \in Procs |-> "idle"]
    /\ spec = [p \in Procs |-> EmptySpec]
    /\ patch = [p \in Procs |-> FALSE]
    /\ cldata = [p \in Procs |-> NilClusterData]
    /\ cdpair = [p \in Procs |-> NilPair]
    /\ newspec = [p \in Procs |-> EmptySpec]
    /\ rgs = [p \in Procs |-> {}]
    /\ todo = [p \in Procs |-> {}]
    /\ ret = [p \in Procs |-> "none"]
    /\ pushed = [p \in Procs |-> {}]
    /\ failed = [p \in Procs |-> {}]
    /\ wrote = [p \in Procs |-> FALSE]
    /\ pre = [p \in Procs |-> [cd |-> kvCluster, gs |-> groupSpec]]
    /\ hist = <<>>
    /\ nCalls = 0
    /\ nPuts = 0

\* No read and no connection resolution has been made.
NoRead == [op |-> "none"]

NoConn == [op |-> "none"]

MergeIdle ==
    /\ mBase = EmptySpec
    /\ mPatch = EmptySpec
    /\ mOut = EmptySpec
    /\ mPhase = "off"

FacadeIdle ==
    /\ rd = NoRead
    /\ conn = NoConn

Init == StoreInit /\ IdleInit /\ MergeIdle /\ FacadeIdle

\* No invocation is between its first read and its return.
Quiet == \A p \in Procs : pc[p] \in {"idle", "done"}

\* The record a finished invocation leaves in the history.
Finished(p, e, kvAfter) ==
    [kind |-> "update", by |-> p, spec |-> spec[p], patch |-> patch[p],
     err |-> e, cdBefore |-> pre[p].cd, cdAfter |-> kvAfter]

\* UpdateStolonSpec is called: invocation p is the p-th one to start.
Call(p, s, m) ==
    /\ pc[p] = "idle"
    /\ p = nCalls + 1
    /\ nCalls' = nCalls + 1
    /\ pc' = [pc EXCEPT ![p] = "getcd"]
    /\ spec' = [spec EXCEPT ![p] = s]
    /\ patch' = [patch EXCEPT ![p] = m]
    /\ cldata' = [cldata EXCEPT ![p] = NilClusterData]
    /\ cdpair' = [cdpair EXCEPT ![p] = NilPair]
    /\ newspec' = [newspec EXCEPT ![p] = EmptySpec]
    /\ rgs' = [rgs EXCEPT ![p] = {}]
    /\ todo' = [todo EXCEPT ![p] = {}]
    /\ ret' = [ret EXCEPT ![p] = "none"]
    /\ pushed' = [pushed EXCEPT ![p] = {}]
    /\ failed' = [failed EXCEPT ![p] = {}]
    /\ wrote' = [wrote EXCEPT ![p] = FALSE]
    /\ pre' = [pre EXCEPT ![p] = [cd |-> kvCluster, gs |-> groupSpec]]
    /\ UNCHANGED <<kvCluster, kvRepGroups, kvMasters, groupSpec, hist, nPuts, mvars>>

\* An invocation returns e (or panics) without having written anything.
Return(p, e) ==
    /\ pc' = [pc EXCEPT ![p] = "done"]
    /\ ret' = [ret EXCEPT ![p] = e]
    /\ hist' = Append(hist, Finished(p, e, kvCluster))

\* Lines 145-159: read ClusterData and compute the new spec.  A nil cldata
\* (no error, key absent) is dereferenced at line 150: the goroutine panics.
UpdGetClusterData(p) ==
    /\ pc[p] = "getcd"
    /\ \E fail \in BOOLEAN :
         LET r == GetClusterData(kvCluster, fail) IN
         IF r.err # "nil"
         THEN /\ Return(p, r.err)
              /\ UNCHANGED <<cldata, cdpair, newspec>>
         ELSE IF r.cldata = NilClusterData
         THEN /\ Return(p, "panic")
              /\ UNCHANGED <<cldata, cdpair, newspec>>
         ELSE /\ cldata' = [cldata EXCEPT ![p] = r.cldata]
              /\ cdpair' = [cdpair EXCEPT ![p] = r.pair]
              /\ newspec' = [newspec EXCEPT ![p] =
                    ComputeNewSpec(r.cldata.StolonSpec, spec[p], patch[p])]
              /\ pc' = [pc EXCEPT ![p] = "getrg"]
              /\ UNCHANGED <<ret, hist>>
    /\ UNCHANGED <<kvCluster, kvRepGroups, kvMasters, groupSpec, spec, patch, rgs, todo,
                   pushed, failed, wrote, pre, nCalls, nPuts,
                   mvars>>

\* Lines 163-166: read the directory; a nil map makes the loop run no turn.
UpdGetRepGroups(p) ==
    /\ pc[p] = "getrg"
    /\ \E fail \in BOOLEAN :
         LET r == GetRepGroups(kvRepGroups, fail) IN
         IF r.err # "nil"
         THEN /\ Return(p, r.err)
              /\ UNCHANGED <<rgs, todo>>
         ELSE /\ rgs' = [rgs EXCEPT ![p] = r.rgdata]
              /\ todo' = [todo EXCEPT ![p] = r.rgdata]
              /\ pc' = [pc EXCEPT ![p] = AfterPush(r.rgdata)]
              /\ UNCHANGED <<ret, hist>>
    /\ UNCHANGED <<kvCluster, kvRepGroups, kvMasters, groupSpec, spec, patch, cldata,
                   cdpair, newspec, pushed, failed, wrote, pre, nCalls, nPuts,
                   mvars>>

\* Lines 167-173: one turn of the loop.  Go ranges over a map in an order
\* of its own choosing: any group not yet reached may come next.
UpdPush(p, rgid) ==
    /\ pc[p] = "loop"
    /\ rgid \in todo[p]
    /\ \E ok \in BOOLEAN :
         LET flag == PushPatchFlag(patch[p])
             r    == StolonUpdate(groupSpec[rgid], rgid, flag, newspec[p], ok)
             rest == RangeRest(todo[p], rgid)
             call == [rgid |-> rgid, patch |-> flag, spec |-> newspec[p],
                      err |-> r.err, wrote |-> wrote[p]]
         IN  /\ pushed' = [pushed EXCEPT ![p] = @ \cup {call}]
             /\ groupSpec' = [groupSpec EXCEPT ![rgid] = r.spec]
             /\ todo' = [todo EXCEPT ![p] = rest]
             /\ IF r.err # "nil"
                THEN /\ failed' = [failed EXCEPT ![p] = @ \cup {rgid}]
                     /\ pc' = [pc EXCEPT ![p] = AfterPushError(rest)]
                     /\ IF AfterPushError(rest) = "done"
                        THEN /\ ret' = [ret EXCEPT ![p] = r.err]
                             /\ hist' = Append(hist,
                                   Finished(p, r.err, kvCluster))
                        ELSE UNCHANGED <<ret, hist>>
                ELSE /\ pc' = [pc EXCEPT ![p] = AfterPush(rest)]
                     /\ UNCHANGED <<failed, ret, hist>>
    /\ UNCHANGED <<kvCluster, kvRepGroups, kvMasters, spec, patch, cldata, cdpair,
                   newspec, rgs, wrote, pre, nCalls, nPuts,
                   mvars>>

\* Lines 175-176: store the ClusterData with the new spec and return.
UpdPutClusterData(p) ==
    /\ pc[p] = "put"
    /\ \E fail \in BOOLEAN :
         LET r == CommitClusterData(kvCluster, cldata[p], newspec[p],
                                    cdpair[p], fail)
             e == PutResult(r.err)
         IN  /\ kvCluster' = r.kv
             /\ cldata' = [cldata EXCEPT ![p].StolonSpec = newspec[p]]
             /\ pc' = [pc EXCEPT ![p] = "done"]
             /\ ret' = [ret EXCEPT ![p] = e]
             /\ wrote' = [wrote EXCEPT ![p] = (r.err = "nil")]
             /\ hist' = Append(hist, Finished(p, e, r.kv))
    /\ UNCHANGED <<kvRepGroups, kvMasters, groupSpec, spec, patch, cdpair, newspec, rgs,
                   todo, pushed, failed, pre, nCalls, nPuts, mvars>>

\* What a direct put by another client leaves in the history.
Direct(kind) ==
    [kind |-> kind, by |-> 0, spec |-> EmptySpec, patch |-> FALSE,
     err |-> "ok", cdBefore |-> kvCluster, cdAfter |-> kvCluster']

\* Another client bootstraps or overwrites ClusterData (PutClusterData).
ClientPutClusterData(auth) ==
    /\ nPuts < MaxPuts
    /\ nPuts' = nPuts + 1
    /\ kvCluster' = PutClusterData(kvCluster, BootClusterData(auth), FALSE).kv
    /\ hist' = Append(hist, Direct("putclusterdata"))
    /\ UNCHANGED <<kvRepGroups, kvMasters, groupSpec, pc, spec, patch, cldata, cdpair,
                   newspec, rgs, todo, ret, pushed, failed, wrote, pre, nCalls,
                   mvars>>

\* Another client writes the directory (PutRepGroups).
ClientPutRepGroups(ids) ==
    /\ nPuts < MaxPuts
    /\ nPuts' = nPuts + 1
    /\ kvRepGroups' = PutRepGroups(kvRepGroups, ids, FALSE).kv
    /\ kvCluster' = kvCluster
    /\ hist' = Append(hist, Direct("putrepgroups"))
    /\ UNCHANGED <<kvMasters, groupSpec, pc, spec, patch, cldata, cdpair,
                   newspec, rgs, todo, ret, pushed, failed, wrote, pre, nCalls,
                   mvars>>

\* Another client records the groups' masters (PutMasters).
ClientPutMasters(masters) ==
    /\ nPuts < MaxPuts
    /\ nPuts' = nPuts + 1
    /\ kvMasters' = PutMasters(kvMasters, masters, FALSE).kv
    /\ kvCluster' = kvCluster
    /\ hist' = Append(hist, Direct("putmasters"))
    /\ UNCHANGED <<kvRepGroups, groupSpec, pc, spec, patch, cldata, cdpair,
                   newspec, rgs, todo, ret, pushed, failed, wrote, pre, nCalls,
                   mvars>>

\* The masters other clients record: every group led by the same node.
MasterMaps ==
    {[g \in Groups |-> [ListenAddress |-> "10.0.0.1", Port |-> "5432"]]}

\* The directories other clients write.
Directories == {{}, Groups}

\* Invocations and other clients' puts interleave freely.
Next ==
    \/ \E p \in Procs, s \in Requests, m \in BOOLEAN : Call(p, s, m)
    \/ \E p \in Procs : UpdGetClusterData(p)
    \/ \E p \in Procs : UpdGetRepGroups(p)
    \/ \E p \in Procs, g \in Groups : UpdPush(p, g)
    \/ \E p \in Procs : UpdPutClusterData(p)
    \/ ClientPutClusterData("trust")
    \/ \E ids \in Directories : ClientPutRepGroups(ids)
    \/ \E ms \in MasterMaps : ClientPutMasters(ms)

Spec == Init /\ [][Next]_vars

\* One operation at a time: nothing starts while an invocation is running.
CallSeq(p, s, m) == Quiet /\ Call(p, s, m)

ClientPutClusterDataSeq(auth) == Quiet /\ ClientPutClusterData(auth)

ClientPutRepGroupsSeq(ids) == Quiet /\ ClientPutRepGroups(ids)

ClientPutMastersSeq(masters) == Quiet /\ ClientPutMasters(masters)

NextSeq ==
    \/ \E p \in Procs, s \in Requests, m \in BOOLEAN : CallSeq(p, s, m)
    \/ \E p \in Procs : UpdGetClusterData(p)
    \/ \E p \in Procs : UpdGetRepGroups(p)
    \/ \E p \in Procs, g \in Groups : UpdPush(p, g)
    \/ \E p \in Procs : UpdPutClusterData(p)
    \/ ClientPutClusterDataSeq("trust")
    \/ \E ids \in Directories : ClientPutRepGroupsSeq(ids)
    \/ \E ms \in MasterMaps : ClientPutMastersSeq(ms)

SpecSeq == Init /\ [][NextSeq]_vars

(***************************************************************************)
(* Properties of UpdateStolonSpec.                                         *)
(***************************************************************************)
\* The groups an invocation has pushed with success.
OkGroups(p) == {c.rgid : c \in {d \in pushed[p] : d.err = "nil"}}

\* The groups an invocation has called StolonUpdate for.
Attempted(p) == {c.rgid : c \in pushed[p]}

\* Invocation p has returned and nothing has run since.
IsLatest(p) == hist # <<>> /\ hist[Len(hist)].by = p /\ Quiet

\* C1: an invocation is at its ClusterData write, or has made it, only when
\* StolonUpdate has returned success for every group of the directory it
\* read; and no StolonUpdate call of an invocation was made after its write.
C1_WriteOnlyAfterAllPushes ==
    \A p \in Procs :
        /\ \A c \in pushed[p] : ~c.wrote
        /\ (pc[p] = "put" \/ wrote[p]) =>
              /\ OkGroups(p) = rgs[p]
              /\ failed[p] = {}
              /\ todo[p] = {}

C1_Witness ==
    \E p \in Procs : wrote[p] /\ rgs[p] = Groups /\ OkGroups(p) = Groups

\* C2: when a push fails the invocation is over: it pushed no group after
\* the failing one, returned the error of that push and wrote no
\* ClusterData, so the stored ClusterData is what it was at the call.
C2_StopsAtFailedPush ==
    \A p \in Procs :
        failed[p] # {} =>
            /\ pc[p] = "done"
            /\ Cardinality(failed[p]) = 1
            /\ Attempted(p) = OkGroups(p) \cup failed[p]
            /\ todo[p] = rgs[p] \ Attempted(p)
            /\ \E c \in pushed[p] : c.rgid \in failed[p] /\ c.err = ret[p]
            /\ ret[p] # "ok"
            /\ ~wrote[p]
            /\ \A i \in DOMAIN hist :
                  hist[i].by = p => hist[i].cdAfter = hist[i].cdBefore
            /\ IsLatest(p) => kvCluster = pre[p].cd

C2_Witness ==
    \E p \in Procs :
        /\ failed[p] # {}
        /\ OkGroups(p) # {}
        /\ todo[p] # {}
        /\ IsLatest(p)
        /\ kvCluster.present

\* C3: with the directory {1, 2, 3} and the push to group 2 failing, the
\* invocation returns an error, group 1 holds the new spec, group 3 is as
\* it was and ClusterData is as it was.
C3_FanoutBeforeCommit ==
    \A p \in Procs :
        (pc[p] = "done" /\ rgs[p] = {1, 2, 3} /\ failed[p] = {2} /\ IsLatest(p)) =>
            /\ ret[p] # "ok"
            /\ groupSpec[1] = patchClusterSpec(pre[p].gs[1], newspec[p])
            /\ groupSpec[3] = pre[p].gs[3]
            /\ kvCluster = pre[p].cd

\* C4: an invocation that found no ClusterData returns ClusterNotInitialized,
\* having pushed no group and written nothing.
C4_ClusterNotInitialized ==
    \A p \in Procs :
        (pc[p] = "done" /\ ~pre[p].cd.present /\ ~kvCluster.present
            /\ ret[p] # "BackendError") =>
            /\ ret[p] = "ClusterNotInitialized"
            /\ pushed[p] = {}
            /\ ~wrote[p]

\* The stored ClusterData spec, as a StolonSpec.
StoredSpec == Unmarshal(kvCluster.value.StolonSpec)

\* C5: the final write is made whatever the version of the key then is: it
\* either fails in the backend or succeeds and stores the document the
\* invocation read with its own new spec.  So when two invocations read the
\* same version and both return success, the stored spec is the new spec of
\* the later writer alone, computed from the document as it was before
\* either of them wrote.
C5_UnconditionalWrite ==
    /\ [][\A p \in Procs :
            (pc[p] = "put" /\ pc'[p] = "done") =>
                \/ /\ ret'[p] = "ok"
                   /\ kvCluster' = EtcdPut(kvCluster, MarshalClusterData(
                          [cldata[p] EXCEPT !.StolonSpec = newspec[p]]))
                \/ /\ ret'[p] = "BackendError"
                   /\ kvCluster' = kvCluster]_vars
    /\ [](\A p, q \in Procs :
            (/\ p # q
             /\ ret[p] = "ok"
             /\ ret[q] = "ok"
             /\ cdpair[p] = cdpair[q]
             /\ IsLatest(q)) =>
                /\ StoredSpec = newspec[q]
                /\ newspec[q] = ComputeNewSpec(
                       Unmarshal(cdpair[p].Value.StolonSpec), spec[q], patch[q]))

\* Both patches returned success and the first one's is not in the store.
C5_Witness ==
    \E p, q \in Procs :
        /\ p # q
        /\ ret[p] = "ok" /\ patch[p]
        /\ ret[q] = "ok" /\ patch[q]
        /\ spec[p] # spec[q]
        /\ cdpair[p] = cdpair[q]
        /\ IsLatest(q)
        /\ StoredSpec = newspec[q]
        /\ patchClusterSpec(StoredSpec, spec[p]) # StoredSpec

\* Field f of the nested struct of a spec, Null when there is none.
SubField(s, f) == IF s.b = NilStruct THEN Null ELSE s.b[f]

\* Every field the patch omits, at either depth, is in the result what it
\* is in the base.
PreservesOmitted(base, p, result) ==
    /\ p.a = Null => result.a = base.a
    /\ p.b = NilStruct => result.b = base.b
    /\ \A f \in {"x", "y"} :
          SubField(p, f) = Null => SubField(result, f) = SubField(base, f)

\* The merge of section 4.2 written field by field: a field of the patch
\* replaces the base's, a field it omits keeps the base's, and the nested
\* struct is merged field by field when both hold one.
FieldMerge(base, p) ==
    [a |-> IF p.a # Null THEN p.a ELSE base.a,
     b |-> IF p.b = NilStruct THEN base.b
           ELSE IF base.b = NilStruct THEN p.b
           ELSE [x |-> IF p.b.x # Null THEN p.b.x ELSE base.b.x,
                 y |-> IF p.b.y # Null THEN p.b.y ELSE base.b.y]]

\* C6: every StolonUpdate call is made with the patch flag true and the
\* invocation's new spec, whatever mode the caller asked for; and a push
\* that succeeds leaves the group every field the new spec omits.
C6_GroupsAlwaysPatched ==
    /\ [](\A p \in Procs : \A c \in pushed[p] :
            c.patch = TRUE /\ c.spec = newspec[p])
    /\ [][\A p \in Procs : \A g \in Groups :
            (g \in todo[p] /\ g \notin todo'[p] /\ g \notin failed'[p]) =>
                /\ PreservesOmitted(groupSpec[g], newspec[p], groupSpec'[g])
                /\ groupSpec'[g] = FieldMerge(groupSpec[g], newspec[p])]_vars

\* A Replace at cluster level has left a group its own a and y.
C6_Witness ==
    \E p \in Procs : \E g \in Groups :
        /\ ~patch[p]
        /\ g \in OkGroups(p)
        /\ newspec[p] = [a |-> Null, b |-> [x |-> MaxVal, y |-> Null]]
        /\ groupSpec[g] = [a |-> 1, b |-> [x |-> MaxVal, y |-> 1]]

\* C7: with one operation at a time, an invocation that returned success
\* left as stored spec the field-by-field merge of the spec stored at the
\* call with the requested one in Patch mode, and the requested one in
\* Replace mode.
C7_StoredSpecAfterUpdate ==
    \A i \in DOMAIN hist :
        (hist[i].kind = "update" /\ hist[i].err = "ok") =>
            LET current == Unmarshal(hist[i].cdBefore.value.StolonSpec)
                stored  == hist[i].cdAfter.value.StolonSpec
            IN  stored = IF hist[i].patch
                         THEN Marshal(FieldMerge(current, hist[i].spec))
                         ELSE Marshal(hist[i].spec)

\* A Patch that returned success and whose result is neither the request
\* nor the spec stored before.
C7_Witness ==
    \E i \in DOMAIN hist :
        /\ hist[i].kind = "update" /\ hist[i].err = "ok" /\ hist[i].patch
        /\ hist[i].cdAfter.value.StolonSpec # Marshal(hist[i].spec)
        /\ hist[i].cdAfter.value.StolonSpec # hist[i].cdBefore.value.StolonSpec
        /\ hist[i].cdAfter = kvCluster

\* The directory is absent or holds no group.
NoGroups == ~kvRepGroups.present \/ kvRepGroups.value.groups = {}

\* C8: reading a directory that is absent or empty is no error of its own
\* (the read fails only when the backend does); the invocation then makes
\* no push, and its write, unless the backend fails, stores the new spec.
C8_EmptyDirectoryIsValid ==
    /\ [][\A p \in Procs :
            (pc[p] = "getrg" /\ pc'[p] # "getrg" /\ NoGroups) =>
                \/ pc'[p] = "done" /\ ret'[p] = "BackendError"
                \/ pc'[p] = "put" /\ rgs'[p] = {} /\ pushed'[p] = {}]_vars
    /\ [][\A p \in Procs :
            (pc[p] = "put" /\ pc'[p] = "done" /\ rgs[p] = {}) =>
                /\ pushed'[p] = {}
                /\ \/ ret'[p] = "BackendError"
                   \/ /\ ret'[p] = "ok"
                      /\ kvCluster'.value.StolonSpec = Marshal(newspec[p])]_vars

\* An invocation that read an absent directory has written its new spec.
C8_Witness ==
    \E p \in Procs :
        /\ ~kvRepGroups.present
        /\ ret[p] = "ok"
        /\ wrote[p]
        /\ pushed[p] = {}
        /\ IsLatest(p)
        /\ StoredSpec = newspec[p]

\* C9: with one operation at a time, two successive successful Replace
\* invocations with the same spec leave the same ClusterData document.
C9_ReplaceIdempotent ==
    \A i \in DOMAIN hist :
        (/\ i + 1 \in DOMAIN hist
         /\ hist[i].kind = "update" /\ hist[i + 1].kind = "update"
         /\ ~hist[i].patch /\ ~hist[i + 1].patch
         /\ hist[i].spec = hist[i + 1].spec
         /\ hist[i].err = "ok" /\ hist[i + 1].err = "ok") =>
            hist[i + 1].cdAfter.value = hist[i].cdAfter.value

\* Two such invocations, the first of which changed the stored document.
C9_Witness ==
    \E i \in DOMAIN hist :
        /\ i + 1 \in DOMAIN hist
        /\ hist[i].kind = "update" /\ hist[i + 1].kind = "update"
        /\ ~hist[i].patch /\ ~hist[i + 1].patch
        /\ hist[i].spec = hist[i + 1].spec
        /\ hist[i].err = "ok" /\ hist[i + 1].err = "ok"
        /\ hist[i].cdAfter.value # hist[i].cdBefore.value
        /\ hist[i + 1].cdAfter.ver = hist[i].cdAfter.ver + 1

\* The merge engine applied to every base and patch.
InitMerge ==
    /\ kvCluster = AbsentKey
    /\ kvRepGroups = AbsentKey
    /\ kvMasters = AbsentKey
    /\ groupSpec = [g \in Groups |-> BootGroupSpec]
    /\ IdleInit
    /\ mBase \in StolonSpecs
    /\ mPatch \in StolonSpecs
    /\ mOut = EmptySpec
    /\ mPhase = "in"
    /\ FacadeIdle

MergeStep ==
    /\ mPhase = "in"
    /\ mOut' = patchClusterSpec(mBase, mPatch)
    /\ mPhase' = "out"
    /\ UNCHANGED <<mBase, mPatch, rd, conn, svars>>

SpecMerge == InitMerge /\ [][MergeStep]_vars

\* C10: the merged spec holds, for every field the patch omits at either
\* depth, the value the base holds.
C10_MergePreservesUntouched ==
    mPhase = "out" => PreservesOmitted(mBase, mPatch, mOut)

\* A patch that sets b.x and omits a and b.y, both set in the base.
C10_Witness ==
    /\ mPhase = "out"
    /\ mBase.a # Null /\ mPatch.a = Null /\ mOut.a = mBase.a
    /\ mBase.b # NilStruct /\ mPatch.b # NilStruct
    /\ mPatch.b.x # Null /\ mPatch.b.x # mBase.b.x
    /\ mBase.b.y # Null /\ mPatch.b.y = Null /\ mOut.b.y = mBase.b.y

\* The facade with one operation at a time, and the merge engine on its own.
NextContract ==
    \/ mPhase = "off" /\ NextSeq
    \/ MergeStep

SpecContract == (Init \/ InitMerge) /\ [][NextContract]_vars

\* Every scalar the patch sets, at either depth, is in the result what it
\* is in the patch.
OverridesSet(p, result) ==
    /\ p.a # Null => result.a = p.a
    /\ \A f \in {"x", "y"} :
          SubField(p, f) # Null => SubField(result, f) = SubField(p, f)

\* C11: the merged spec holds, for every scalar the patch sets at either
\* depth, the patch's value; and a Patch invocation that returned success
\* left a stored spec holding every scalar of the request, so that from the
\* stored spec {a:1, b:{x:1}} the request {b:{x:MaxVal}} ends with
\* {a:1, b:{x:MaxVal}}.
C11_MergeOverridesScalars ==
    /\ mPhase = "out" => OverridesSet(mPatch, mOut)
    /\ \A i \in DOMAIN hist :
          (hist[i].kind = "update" /\ hist[i].err = "ok" /\ hist[i].patch) =>
              LET before == Unmarshal(hist[i].cdBefore.value.StolonSpec)
                  after  == Unmarshal(hist[i].cdAfter.value.StolonSpec)
              IN  /\ OverridesSet(hist[i].spec, after)
                  /\ (/\ before = BootSpec
                      /\ hist[i].spec = [a |-> Null,
                                         b |-> [x |-> MaxVal, y |-> Null]]) =>
                        after = [a |-> 1, b |-> [x |-> MaxVal, y |-> Null]]

\* The end-to-end scenario: {a:1, b:{x:1}} patched with {b:{x:MaxVal}}.
C11_Witness ==
    \E i \in DOMAIN hist :
        /\ hist[i].kind = "update" /\ hist[i].err = "ok" /\ hist[i].patch
        /\ Unmarshal(hist[i].cdBefore.value.StolonSpec) = BootSpec
        /\ hist[i].spec = [a |-> Null, b |-> [x |-> MaxVal, y |-> Null]]
        /\ hist[i].cdAfter = kvCluster
        /\ StoredSpec = [a |-> 1, b |-> [x |-> MaxVal, y |-> Null]]
        /\ StoredSpec # BootSpec

\* C12: a field the typed patch holds as null (a nil pointer, the one null a
\* StolonSpec value can carry) is absent from the merged spec, whatever the
\* base holds for it.
C12_NullDeletes ==
    mPhase = "out" =>
        /\ mPatch.a = Null => mOut.a = Null
        /\ mPatch.b = NilStruct => mOut.b = NilStruct
        /\ \A f \in {"x", "y"} :
              (mPatch.b # NilStruct /\ mPatch.b[f] = Null) =>
                  SubField(mOut, f) = Null

(***************************************************************************)
(* The typed reads on their own: a reader calls GetClusterData and         *)
(* GetRepGroups on keys that were never written, that hold a document, or  *)
(* that hold bytes another etcd client left there.                         *)
(***************************************************************************)
\* What the clusterdata key may hold: a bootstrapped ClusterData, the
\* documents {} and null, or bytes that are no JSON.
ClusterDataBytes ==
    {MarshalClusterData(BootClusterData("md5")), EmptyDoc, JNullObj,
     CorruptBytes}

\* What the repgroups key may hold: a directory, the empty map {}, null
\* (PutRepGroups of a nil map), or bytes that are no JSON.
RepGroupsBytes ==
    {MarshalRepGroups(Groups), MarshalRepGroups({}), JNullObj, CorruptBytes}

InitRead ==
    /\ kvCluster \in {AbsentKey} \cup
                      {EtcdPut(AbsentKey, b) : b \in ClusterDataBytes}
    /\ kvRepGroups \in {AbsentKey} \cup
                        {EtcdPut(AbsentKey, b) : b \in RepGroupsBytes}
    /\ kvMasters = AbsentKey
    /\ groupSpec = [g \in Groups |-> BootGroupSpec]
    /\ IdleInit
    /\ MergeIdle
    /\ FacadeIdle

\* A call of GetClusterData: what was asked, of which key, and the result.
ReadClusterData ==
    /\ \E fail \in BOOLEAN :
          rd' = [op |-> "GetClusterData", fail |-> fail, key |-> kvCluster,
                 out |-> GetClusterData(kvCluster, fail)]
    /\ UNCHANGED <<svars, mBase, mPatch, mOut, mPhase, conn>>

\* A call of GetRepGroups.
ReadRepGroups ==
    /\ \E fail \in BOOLEAN :
          rd' = [op |-> "GetRepGroups", fail |-> fail, key |-> kvRepGroups,
                 out |-> GetRepGroups(kvRepGroups, fail)]
    /\ UNCHANGED <<svars, mBase, mPatch, mOut, mPhase, conn>>

NextRead ==
    \/ ReadClusterData
    \/ ReadRepGroups
    \/ ClientPutClusterData("trust")
    \/ \E ids \in Directories : ClientPutRepGroups(ids)

SpecRead == InitRead /\ [][NextRead]_vars

\* The Absent outcome of GetClusterData: no value, no pair, no error.
AbsentClusterData(out) ==
    out.cldata = NilClusterData /\ out.pair = NilPair /\ out.err = "nil"

\* The Absent outcome of GetRepGroups: a nil map, no pair, no error.
AbsentRepGroups(out) ==
    out.nilmap /\ out.rgdata = {} /\ out.pair = NilPair /\ out.err = "nil"

\* C13: GetClusterData and GetRepGroups return the Absent outcome (no
\* value, no pair, no error) exactly when the key was never written and the
\* backend did not fail; a backend failure and bytes that do not decode
\* return an error of their own kind with no value and no pair, and a key
\* holding the document {} returns a value (the zero ClusterData, the empty
\* non-nil map) with the pair carrying the key's version.
C13_AbsentIsDistinct ==
    /\ rd.op = "GetClusterData" =>
          /\ AbsentClusterData(rd.out) <=> (~rd.key.present /\ ~rd.fail)
          /\ rd.fail =>
                rd.out = [cldata |-> NilClusterData, pair |-> NilPair,
                          err |-> "BackendError"]
          /\ (~rd.fail /\ rd.key.present /\ rd.key.value = CorruptBytes) =>
                rd.out = [cldata |-> NilClusterData, pair |-> NilPair,
                          err |-> "DecodeError"]
          /\ (~rd.fail /\ rd.key.present /\ rd.key.value = EmptyDoc) =>
                /\ rd.out.err = "nil"
                /\ rd.out.cldata = ZeroClusterData
                /\ rd.out.cldata # NilClusterData
                /\ rd.out.pair = [Value |-> EmptyDoc,
                                  LastIndex |-> rd.key.ver]
    /\ rd.op = "GetRepGroups" =>
          /\ AbsentRepGroups(rd.out) <=> (~rd.key.present /\ ~rd.fail)
          /\ rd.fail =>
                /\ rd.out.err = "BackendError"
                /\ rd.out.nilmap /\ rd.out.pair = NilPair
          /\ (~rd.fail /\ rd.key.present /\ rd.key.value = CorruptBytes) =>
                /\ rd.out.err = "DecodeError"
                /\ rd.out.nilmap /\ rd.out.pair = NilPair
          /\ (~rd.fail /\ rd.key.present
                /\ rd.key.value = MarshalRepGroups({})) =>
                /\ rd.out.err = "nil"
                /\ ~rd.out.nilmap /\ rd.out.rgdata = {}
                /\ rd.out.pair = [Value |-> MarshalRepGroups({}),
                                  LastIndex |-> rd.key.ver]

\* GetClusterData of a key never written, while the repgroups key holds {}.
C13_Witness ==
    /\ rd.op = "GetClusterData"
    /\ ~rd.key.present
    /\ ~rd.fail
    /\ AbsentClusterData(rd.out)
    /\ kvRepGroups.present
    /\ kvRepGroups.value = MarshalRepGroups({})

(***************************************************************************)
(* GetSuConnstrMap on its own, for every ClusterData and every outcome of  *)
(* the two calls into the group's store.                                   *)
(***************************************************************************)
\* The ClusterData a caller may pass.
ConnClusterData ==
    [StolonSpec     : {BootSpec},
     PgSuUsername   : {"postgres", "su"},
     PgSuPassword   : {"secret", ""},
     PgSuAuthMethod : {"trust", "md5", ""}] \cup {NilClusterData}

InitConn ==
    /\ kvCluster = AbsentKey
    /\ kvRepGroups = AbsentKey
    /\ kvMasters = AbsentKey
    /\ groupSpec = [g \in Groups |-> BootGroupSpec]
    /\ IdleInit
    /\ MergeIdle
    /\ rd = NoRead
    /\ \E c \in ConnClusterData, ma \in Masters \cup {NilMaster},
          ne \in BOOLEAN, ge \in BOOLEAN :
          conn = [op |-> "call", cldata |-> c, newErr |-> ne, master |-> ma,
                  getErr |-> ge]

\* The call returns (or panics).
ConnStep ==
    /\ conn.op = "call"
    /\ conn' = [op |-> "done", cldata |-> conn.cldata,
                newErr |-> conn.newErr, master |-> conn.master,
                getErr |-> conn.getErr,
                out |-> GetSuConnstrMap(conn.cldata, conn.newErr,
                                        conn.master, conn.getErr)]
    /\ UNCHANGED <<svars, mBase, mPatch, mOut, mPhase, rd>>

SpecConn == InitConn /\ [][ConnStep]_vars

\* C14: a map returned by GetSuConnstrMap holds user, dbname, host and port:
\* the ClusterData's superuser name, "postgres", and the master's address
\* and port; it holds a password exactly when the auth method is not
\* "trust", and the password is the ClusterData's; it holds nothing else.
C14_PasswordUnlessTrust ==
    (conn.op = "done" /\ conn.out.err = "nil") =>
        LET cp == conn.out.cp IN
        /\ {"user", "dbname", "host", "port"} \subseteq DOMAIN cp
        /\ DOMAIN cp \subseteq {"user", "dbname", "host", "port", "password"}
        /\ cp["user"] = conn.cldata.PgSuUsername
        /\ cp["dbname"] = "postgres"
        /\ cp["host"] = conn.master.ListenAddress
        /\ cp["port"] = conn.master.Port
        /\ "password" \in DOMAIN cp <=> conn.cldata.PgSuAuthMethod # "trust"
        /\ "password" \in DOMAIN cp =>
              cp["password"] = conn.cldata.PgSuPassword

\* A map returned under "trust": no password, though one is stored.
C14_Witness ==
    /\ conn.op = "done"
    /\ conn.out.err = "nil"
    /\ conn.cldata.PgSuAuthMethod = "trust"
    /\ conn.cldata.PgSuPassword = "secret"
    /\ conn.cldata.PgSuUsername = "su"
    /\ DOMAIN conn.out.cp = {"user", "dbname", "host", "port"}

\* C16: when GetMaster reports no master and no error, GetSuConnstrMap
\* returns a NoMaster error and no map.
C16_NoMasterError ==
    (/\ conn.op = "done"
     /\ ~conn.newErr /\ ~conn.getErr
     /\ conn.master = NilMaster
     /\ conn.cldata # NilClusterData) =>
        /\ conn.out.err = "NoMaster"
        /\ conn.out.cp = NilMap

\* C15: two invocations that started from the same stored ClusterData and
\* group specs, read the same directory, were given the same request and
\* met a per-group failure behaviour that fits both (no group failed in one
\* and succeeded in the other) have pushed the same groups when a push
\* failed.
C15_DeterministicPushOrder ==
    \A p, q \in Procs :
        (/\ pc[p] = "done" /\ pc[q] = "done"
         /\ pre[p] = pre[q]
         /\ rgs[p] = rgs[q]
         /\ spec[p] = spec[q] /\ patch[p] = patch[q]
         /\ failed[p] # {} /\ failed[q] # {}
         /\ \E bad \in SUBSET Groups :
               \A r \in {p, q} :
                   failed[r] \subseteq bad /\ OkGroups(r) \cap bad = {}) =>
            OkGroups(p) = OkGroups(q)

\* C17: a final write that fails ends the invocation at once with the
\* backend's error and changes nothing; when every group of a directory
\* that is not empty was pushed and the write failed, every group holds its
\* spec merged with the new one and the stored ClusterData is what it was
\* at the call.
C17_FailedWriteIsReturned ==
    /\ [][\A p \in Procs :
            (pc[p] = "put" /\ pc'[p] # "put" /\ kvCluster' = kvCluster) =>
                /\ pc'[p] = "done"
                /\ ret'[p] = "BackendError"
                /\ ~wrote'[p]
                /\ pushed'[p] = pushed[p]
                /\ groupSpec' = groupSpec]_vars
    /\ [](\A p \in Procs :
            (/\ pc[p] = "done"
             /\ ret[p] = "BackendError"
             /\ rgs[p] # {}
             /\ OkGroups(p) = rgs[p]
             /\ IsLatest(p)) =>
                /\ kvCluster = pre[p].cd
                /\ Cardinality(pushed[p]) = Cardinality(rgs[p])
                /\ \A g \in rgs[p] :
                      /\ groupSpec[g] =
                            patchClusterSpec(pre[p].gs[g], newspec[p])
                      /\ OverridesSet(newspec[p], groupSpec[g])
                /\ \A g \in Groups \ rgs[p] : groupSpec[g] = pre[p].gs[g])

\* Every group was pushed, the write failed, and the stored spec is not
\* the one the groups were given.
C17_Witness ==
    \E p \in Procs :
        /\ pc[p] = "done"
        /\ ret[p] = "BackendError"
        /\ rgs[p] = Groups
        /\ OkGroups(p) = Groups
        /\ IsLatest(p)
        /\ kvCluster = pre[p].cd
        /\ StoredSpec # newspec[p]
        /\ \A g \in Groups : groupSpec[g] # pre[p].gs[g]

\* What UpdateStolonSpec(s, mode) leaves when nothing fails and no one else
\* writes: the stored spec and every group's spec, from the stored
\* ClusterData cd, the group specs gs and the directory dir.
FailureFree(cd, gs, dir, s, mode) ==
    LET n == ComputeNewSpec(Unmarshal(cd.value.StolonSpec), s, mode)
    IN  [stored |-> n,
         gs |-> [g \in Groups |->
                   IF g \in dir
                   THEN StolonUpdate(gs[g], g, PushPatchFlag(mode), n,
                                     TRUE).spec
                   ELSE gs[g]]]

\* Invocation p read ClusterData and then failed: at the directory read,
\* at a push or at the final write.
FailedAfterRead(p) ==
    \/ failed[p] # {}
    \/ ret[p] = "BackendError" /\ cldata[p] # NilClusterData

\* C18: with one operation at a time, when an invocation failed after its
\* ClusterData read (at a push or at the final write) and the next
\* operation is the same request again, which returns success, the stored
\* spec and every group's spec are what one failure-free invocation would
\* have left from the state the first one started in.
C18_RetryConverges ==
    \A i \in DOMAIN hist :
        (/\ i + 1 = Len(hist)
         /\ hist[i].kind = "update" /\ hist[i + 1].kind = "update"
         /\ hist[i].by # hist[i + 1].by
         /\ hist[i].spec = hist[i + 1].spec
         /\ hist[i].patch = hist[i + 1].patch
         /\ FailedAfterRead(hist[i].by)
         /\ hist[i + 1].err = "ok"
         /\ IsLatest(hist[i + 1].by)) =>
            LET p == hist[i].by
                q == hist[i + 1].by
                want == FailureFree(pre[p].cd, pre[p].gs, rgs[q],
                                    hist[i].spec, hist[i].patch)
            IN  /\ StoredSpec = want.stored
                /\ groupSpec = want.gs

\* The first invocation failed at its second push, the retry succeeded,
\* and the groups and the stored spec have changed.
C18_Witness ==
    \E i \in DOMAIN hist :
        /\ i + 1 = Len(hist)
        /\ hist[i].kind = "update" /\ hist[i + 1].kind = "update"
        /\ hist[i].by # hist[i + 1].by
        /\ hist[i].spec = hist[i + 1].spec
        /\ hist[i].patch = hist[i + 1].patch
        /\ hist[i].patch
        /\ failed[hist[i].by] # {}
        /\ OkGroups(hist[i].by) # {}
        /\ todo[hist[i].by] # {}
        /\ hist[i + 1].err = "ok"
        /\ IsLatest(hist[i + 1].by)
        /\ rgs[hist[i + 1].by] = Groups
        /\ StoredSpec # Unmarshal(pre[hist[i].by].cd.value.StolonSpec)
        /\ \A g \in Groups : groupSpec[g] # pre[hist[i].by].gs[g]

\* The fields of a ClusterData document other than the spec.
OtherFields == {"PgSuUsername", "PgSuPassword", "PgSuAuthMethod"}

\* C19: no step of an invocation changes the repgroups or the masters key;
\* only its final write changes the clusterdata key, and the document it
\* stores holds the new spec and, for every other field, what the
\* invocation read; a step that ends the invocation with an error leaves
\* the three keys as they were, and so they are what they were at the call.
C19_OnlySpecFieldChanges ==
    /\ [][\A p \in Procs :
            pc'[p] # pc[p] =>
                /\ kvRepGroups' = kvRepGroups
                /\ kvMasters' = kvMasters
                /\ pc[p] # "put" => kvCluster' = kvCluster
                /\ (pc'[p] = "done" /\ ret'[p] # "ok") =>
                      kvCluster' = kvCluster
                /\ (pc[p] = "put" /\ kvCluster' # kvCluster) =>
                      /\ ret'[p] = "ok"
                      /\ DOMAIN kvCluster'.value =
                            OtherFields \cup {"StolonSpec"}
                      /\ kvCluster'.value.StolonSpec = Marshal(newspec[p])
                      /\ \A f \in OtherFields :
                            kvCluster'.value[f] = cdpair[p].Value[f]]_vars
    /\ [](\A p \in Procs :
            (pc[p] = "done" /\ ret[p] # "ok" /\ IsLatest(p)) =>
                kvCluster = pre[p].cd)

\* An invocation changed the stored spec and nothing else of the document,
\* with a directory and a masters document in the store.
C19_Witness ==
    \E p \in Procs :
        /\ ret[p] = "ok"
        /\ IsLatest(p)
        /\ kvMasters.present
        /\ kvRepGroups.present
        /\ OkGroups(p) = Groups
        /\ kvCluster.value.StolonSpec # pre[p].cd.value.StolonSpec
        /\ \A f \in OtherFields :
              kvCluster.value[f] = pre[p].cd.value[f]
        /\ kvCluster.value.PgSuAuthMethod = "md5"
        /\ kvCluster.value.PgSuPassword = "secret"

\* C20: an invocation reads the directory once; every StolonUpdate call it
\* makes is for a group of the directory it read that it has not called
\* before, and when it returns success it has called every group of that
\* directory once, whatever the repgroups key holds by then.
C20_SnapshotPushedOnce ==
    /\ [][\A p \in Procs :
            /\ rgs'[p] # rgs[p] => pc[p] = "getrg"
            /\ (pc[p] = "getrg" /\ pc'[p] \in {"loop", "put"}) =>
                  rgs'[p] = GetRepGroups(kvRepGroups, FALSE).rgdata
            /\ pc'[p] = "getrg" => pc[p] \in {"getcd", "getrg"}
            /\ pushed'[p] # pushed[p] =>
                  \/ pc[p] = "idle" /\ pushed'[p] = {}
                  \/ \E g \in rgs[p] \ Attempted(p) :
                        /\ pc[p] = "loop"
                        /\ Attempted(p)' = Attempted(p) \cup {g}
                        /\ Cardinality(pushed'[p]) =
                              Cardinality(pushed[p]) + 1]_vars
    /\ [](\A p \in Procs :
            /\ Attempted(p) \subseteq rgs[p]
            /\ Cardinality(pushed[p]) = Cardinality(Attempted(p))
            /\ ret[p] = "ok" =>
                  /\ OkGroups(p) = rgs[p]
                  /\ Cardinality(pushed[p]) = Cardinality(rgs[p]))

\* The directory was written with the groups after the invocation read it
\* as absent: the invocation returned success and stored its new spec, and
\* no group was pushed.
C20_Witness ==
    \E p \in Procs :
        /\ ret[p] = "ok"
        /\ wrote[p]
        /\ IsLatest(p)
        /\ rgs[p] = {}
        /\ pushed[p] = {}
        /\ kvRepGroups.present
        /\ kvRepGroups.value = MarshalRepGroups(Groups)
        /\ \E i \in DOMAIN hist : hist[i].kind = "putrepgroups"
        /\ StoredSpec = newspec[p]
        /\ StoredSpec # Unmarshal(pre[p].cd.value.StolonSpec)
        /\ \A g \in Groups : groupSpec[g] = BootGroupSpec

====
